---- MODULE Spec2Model ----
(***************************************************************************)
(* ml-downloader (src/lib.rs): a blocking downloader.  A Downloader keeps  *)
(* the interval window, the retry schedule and prev_download_start; a      *)
(* RequestBuilder, obtained with get, runs the retry loop in send.         *)
(*                                                                         *)
(* Durations and instants are integers counting nanoseconds (the           *)
(* resolution of std::time::Duration and Instant).  Option<T> is a         *)
(* sequence of length 0 (None) or 1 (Some).  A String is a sequence of     *)
(* one-character strings, Bytes a sequence of integers 0..255.             *)
(***************************************************************************)
EXTENDS Integers, Sequences, FiniteSets, TLC

VARIABLES
    min_interval,         \* Downloader.min_interval
    max_interval,         \* Downloader.max_interval
    retry_delays,         \* Downloader.retry_delays : Vec<(Duration, Duration)>
    prev_download_start,  \* Downloader.prev_download_start : Option<Instant>
    now,                  \* the monotonic clock read by Instant::now()
    pc,                   \* position of the calling thread
    hash,                 \* RequestBuilder.hash : Option<(String, Box<dyn DynDigest>)>
    cloneable,            \* whether RequestBuilder.inner.try_clone() is Some
    errors,               \* local `errors` of send
    retry_count,          \* local `retry_count` of send
    result,               \* Option of the value the last send returned
    hash_arg,             \* history: Option of the `expected` argument given to hash
    attempts,             \* history: each attempt of this send, its response and outcome
    events,               \* history: the observable events of this send, in order
    timing                \* history: attempt start times of this and the previous send

vars == <<min_interval, max_interval, retry_delays, prev_download_start, now, pc,
          hash, cloneable, errors, retry_count, result, hash_arg, attempts, events,
          timing>>

downloader == <<min_interval, max_interval, retry_delays>>

-----------------------------------------------------------------------------
(* Bounds of the model.                                                    *)

MaxRetries == 2      \* longest retry schedule tried
MaxBodyLen == 1      \* longest response body tried
MaxTime    == 4500   \* the clock is not advanced past this instant
FracPerNano == 2     \* an f32 argument is a whole number of 1/FracPerNano ns

(* Constants of the program.                                               *)

NanosPerMicro == 1000   \* Duration::as_micros / Duration::from_micros
StatusOK      == 200    \* StatusCode::OK

None == <<>>
Some(x) == <<x>>
IsSome(o) == Len(o) = 1
Unwrap(o) == o[1]

-----------------------------------------------------------------------------
(* Inputs.  Spec varies what the server answers and what the caller asks   *)
(* for, with one duration of each kind; SpecTiming varies the durations,   *)
(* with one failing and one successful answer.                             *)

RECURSIVE SeqsUpTo(_, _)
SeqsUpTo(S, n) ==
    IF n = 0 THEN { <<>> }
    ELSE LET shorter == SeqsUpTo(S, n - 1)
         IN  shorter \cup { Append(s, x) : s \in { t \in shorter : Len(t) = n - 1 }, x \in S }

\* (min, max) pairs a builder can store: Duration::from_secs_f32 keeps
\* nanoseconds, so a bound need not be a whole number of microseconds.
IntervalPairs       == { <<0, 0>>, <<1500, 1500>> }
IntervalPairsTiming == { <<0, 0>>, <<1500, 1500>>, <<1000, 3000>> }
DelayPairs          == { <<0, 0>> }
DelayPairsTiming    == { <<0, 0>>, <<1500, 2500>> }

ByteValues == { 171 }
Bodies == SeqsUpTo(ByteValues, MaxBodyLen)

\* How long one HTTP round trip takes, how late thread::sleep may wake, and
\* how long the caller does something else between two calls.
AttemptDurations       == { 500 }
AttemptDurationsTiming == { 500, 2000 }
Jitters                == { 0 }
JittersTiming          == { 0, 500 }
IdleDurations          == { 3000 }
IdleDurationsTiming    == { 3000 }

Statuses == { 200, 204, 500 }

\* What the server (or the network) answers to one attempt.  sendErr: the
\* request itself fails; bodyErr: reading the body fails.
Response(sendErr, status, bodyErr, body) ==
    [sendErr |-> sendErr, status |-> status, bodyErr |-> bodyErr, body |-> body]

Responses ==
    { Response(TRUE, 0, FALSE, <<>>) }
    \cup { Response(FALSE, s, FALSE, <<171>>) : s \in Statuses \ {StatusOK} }
    \cup { Response(FALSE, StatusOK, TRUE, <<>>) }
    \cup { Response(FALSE, StatusOK, FALSE, b) : b \in Bodies }

ResponsesTiming ==
    { Response(FALSE, 404, FALSE, <<171>>), Response(FALSE, StatusOK, FALSE, <<>>) }

\* What a caller passes to hash(): the expected hash, uppercase or
\* lowercase, and a digest object, fresh or already fed.
HashInputs ==
    { << <<"A", "B">>, <<171>> >>, << <<"6", "0">>, <<>> >> }
HashInputsTiming == { << <<"A", "B">>, <<>> >> }

-----------------------------------------------------------------------------
(* Strings, hex encoding and the digest.                                   *)

HexDigits == <<"0", "1", "2", "3", "4", "5", "6", "7",
               "8", "9", "a", "b", "c", "d", "e", "f">>

\* hex::encode of one byte: two lowercase digits, high nibble first.
HexByte(b) == << HexDigits[(b \div 16) + 1], HexDigits[(b % 16) + 1] >>

RECURSIVE hex_encode(_)
hex_encode(bytes) ==
    IF bytes = <<>> THEN <<>>
    ELSE HexByte(Head(bytes)) \o hex_encode(Tail(bytes))

\* char::to_lowercase on the characters the inputs use.
LowerChar(c) ==
    CASE c = "A" -> "a" [] c = "B" -> "b" [] c = "C" -> "c"
      [] c = "D" -> "d" [] c = "E" -> "e" [] c = "F" -> "f"
      [] OTHER -> c

to_lowercase(s) == [i \in 1..Len(s) |-> LowerChar(s[i])]

\* A DynDigest with output_size() = 1.  Its state is the data fed since
\* the last reset; finalize folds it into one byte.
RECURSIVE DigestFold(_, _)
DigestFold(h, data) ==
    IF data = <<>> THEN h
    ELSE DigestFold((h * 31 + Head(data)) % 256, Tail(data))

digest_reset(d) == <<>>
digest_update(d, bytes) == d \o bytes
digest_finalize(d) == << DigestFold(171, d) >>

-----------------------------------------------------------------------------
(* Errors.                                                                 *)

Reqwest(inner) ==
    [kind |-> "Reqwest", inner |-> inner, status |-> 0,
     got |-> <<>>, expected |-> <<>>, errors |-> <<>>]
StatusNotOk(status) ==
    [kind |-> "StatusNotOk", inner |-> "", status |-> status,
     got |-> <<>>, expected |-> <<>>, errors |-> <<>>]
HashMismatch(got, expected) ==
    [kind |-> "HashMismatch", inner |-> "", status |-> 0,
     got |-> got, expected |-> expected, errors |-> <<>>]
DownloadFailed(errs) ==
    [kind |-> "DownloadFailed", inner |-> "", status |-> 0,
     got |-> <<>>, expected |-> <<>>, errors |-> errs]

NoError == [kind |-> "", inner |-> "", status |-> 0,
            got |-> <<>>, expected |-> <<>>, errors |-> <<>>]

Ok(bytes) == [ok |-> TRUE, bytes |-> bytes, err |-> NoError]
Err(error) == [ok |-> FALSE, bytes |-> <<>>, err |-> error]

-----------------------------------------------------------------------------
(* random_duration, lines 427-431.                                         *)

as_micros(d) == d \div NanosPerMicro
from_micros(us) == us * NanosPerMicro

\* The durations fastrand::u64(min.as_micros() ..= max.as_micros()) can give.
random_duration(min, max) ==
    { from_micros(us) : us \in as_micros(min) .. as_micros(max) }

\* thread::sleep(d) called at instant t wakes at t + d or, by jitter, later.
thread_sleep(t, d, jitter) == t + d + jitter

-----------------------------------------------------------------------------
(* Lines 151-160 sleeping the whole interval at line 156.                  *)

sleep_until_ready_WholeInterval(prev, t, interval, jitter) ==
    IF IsSome(prev)
    THEN LET elapsed == t - Unwrap(prev)
         IN  IF elapsed < interval
             THEN [wake |-> thread_sleep(t, interval, jitter),
                   sampled |-> TRUE, blocked |-> TRUE, prev |-> None]
             ELSE [wake |-> t, sampled |-> TRUE, blocked |-> FALSE, prev |-> None]
    ELSE [wake |-> t, sampled |-> FALSE, blocked |-> FALSE, prev |-> prev]

(* Lines 151-160 with the test of line 155 dropped: the remaining time,    *)
(* zero when the interval has elapsed, is always slept.                    *)

sleep_until_ready_AlwaysSleeps(prev, t, interval, jitter) ==
    IF IsSome(prev)
    THEN LET elapsed == t - Unwrap(prev)
             remaining == IF elapsed < interval THEN interval - elapsed ELSE 0
         IN  [wake |-> thread_sleep(t, remaining, jitter),
              sampled |-> TRUE, blocked |-> TRUE, prev |-> None]
    ELSE [wake |-> t, sampled |-> FALSE, blocked |-> FALSE, prev |-> prev]

(* Lines 151-160 with line 158 moved into the branch of line 155: the      *)
(* start is forgotten only when the call slept.                            *)

sleep_until_ready_ClearsAfterSleepOnly(prev, t, interval, jitter) ==
    IF IsSome(prev)
    THEN LET elapsed == t - Unwrap(prev)
         IN  IF elapsed < interval
             THEN [wake |-> thread_sleep(t, interval - elapsed, jitter),
                   sampled |-> TRUE, blocked |-> TRUE, prev |-> None]
             ELSE [wake |-> t, sampled |-> TRUE, blocked |-> FALSE, prev |-> prev]
    ELSE [wake |-> t, sampled |-> FALSE, blocked |-> FALSE, prev |-> prev]

(* Lines 151-160 without line 158.                                         *)

sleep_until_ready_KeepsPrev(prev, t, interval, jitter) ==
    IF IsSome(prev)
    THEN LET elapsed == t - Unwrap(prev)
         IN  IF elapsed < interval
             THEN [wake |-> thread_sleep(t, interval - elapsed, jitter),
                   sampled |-> TRUE, blocked |-> TRUE, prev |-> prev]
             ELSE [wake |-> t, sampled |-> TRUE, blocked |-> FALSE, prev |-> prev]
    ELSE [wake |-> t, sampled |-> FALSE, blocked |-> FALSE, prev |-> prev]

(* Downloader::sleep_until_ready, lines 151-160: the outcome of one call   *)
(* at instant t with prev_download_start = prev, when random_duration      *)
(* gives interval and the sleep, if any, wakes late by jitter.  wake is    *)
(* the instant the call returns.                                           *)

sleep_until_ready(prev, t, interval, jitter) ==
    IF IsSome(prev)
    THEN LET elapsed == t - Unwrap(prev)
         IN  IF elapsed < interval
             THEN [wake |-> thread_sleep(t, interval - elapsed, jitter),
                   sampled |-> TRUE, blocked |-> TRUE, prev |-> None]
             ELSE [wake |-> t, sampled |-> TRUE, blocked |-> FALSE, prev |-> None]
    ELSE [wake |-> t, sampled |-> FALSE, blocked |-> FALSE, prev |-> prev]

(* Lines 397-421 with line 401 accepting every 2xx status.                 *)

send_once_Any2xx(resp, h) ==
    IF resp.sendErr
    THEN [res |-> Err(Reqwest("send")), hash |-> h, bodyRead |-> FALSE, digested |-> FALSE]
    ELSE IF resp.status \div 100 # 2
    THEN [res |-> Err(StatusNotOk(resp.status)), hash |-> h,
          bodyRead |-> FALSE, digested |-> FALSE]
    ELSE IF resp.bodyErr
    THEN [res |-> Err(Reqwest("body")), hash |-> h, bodyRead |-> TRUE, digested |-> FALSE]
    ELSE [res |-> Ok(resp.body), hash |-> h, bodyRead |-> TRUE, digested |-> FALSE]

(* Lines 397-421 without the comparison of line 412.                       *)

send_once_NoCompare(resp, h) ==
    IF resp.sendErr
    THEN [res |-> Err(Reqwest("send")), hash |-> h, bodyRead |-> FALSE, digested |-> FALSE]
    ELSE IF resp.status # StatusOK
    THEN [res |-> Err(StatusNotOk(resp.status)), hash |-> h,
          bodyRead |-> FALSE, digested |-> FALSE]
    ELSE IF resp.bodyErr
    THEN [res |-> Err(Reqwest("body")), hash |-> h, bodyRead |-> TRUE, digested |-> FALSE]
    ELSE [res |-> Ok(resp.body), hash |-> h, bodyRead |-> TRUE, digested |-> IsSome(h)]

(* Lines 397-421 without the reset of line 406.                            *)

send_once_NoReset(resp, h) ==
    IF resp.sendErr
    THEN [res |-> Err(Reqwest("send")), hash |-> h, bodyRead |-> FALSE, digested |-> FALSE]
    ELSE IF resp.status # StatusOK
    THEN [res |-> Err(StatusNotOk(resp.status)), hash |-> h,
          bodyRead |-> FALSE, digested |-> FALSE]
    ELSE IF resp.bodyErr
    THEN [res |-> Err(Reqwest("body")), hash |-> h, bodyRead |-> TRUE, digested |-> FALSE]
    ELSE LET bytes == resp.body
         IN  IF IsSome(h)
             THEN LET expected == Unwrap(h).expected
                      fed      == digest_update(Unwrap(h).digest, bytes)
                      got      == hex_encode(digest_finalize(fed))
                      after    == Some([expected |-> expected, digest |-> digest_reset(fed)])
                  IN  IF got # expected
                      THEN [res |-> Err(HashMismatch(got, expected)), hash |-> after,
                            bodyRead |-> TRUE, digested |-> TRUE]
                      ELSE [res |-> Ok(bytes), hash |-> after,
                            bodyRead |-> TRUE, digested |-> TRUE]
             ELSE [res |-> Ok(bytes), hash |-> h, bodyRead |-> TRUE, digested |-> FALSE]

(* RequestBuilder::send_once, lines 397-421, after a successful try_clone: *)
(* the Result for response resp with RequestBuilder.hash = h.  bodyRead    *)
(* and digested record whether response.bytes() and digest.update ran.     *)

send_once(resp, h) ==
    IF resp.sendErr
    THEN [res |-> Err(Reqwest("send")), hash |-> h, bodyRead |-> FALSE, digested |-> FALSE]
    ELSE IF resp.status # StatusOK
    THEN [res |-> Err(StatusNotOk(resp.status)), hash |-> h,
          bodyRead |-> FALSE, digested |-> FALSE]
    ELSE IF resp.bodyErr
    THEN [res |-> Err(Reqwest("body")), hash |-> h, bodyRead |-> TRUE, digested |-> FALSE]
    ELSE LET bytes == resp.body
         IN  IF IsSome(h)
             THEN LET expected == Unwrap(h).expected
                      fed      == digest_update(digest_reset(Unwrap(h).digest), bytes)
                      got      == hex_encode(digest_finalize(fed))
                      after    == Some([expected |-> expected, digest |-> digest_reset(fed)])
                  IN  IF got # expected
                      THEN [res |-> Err(HashMismatch(got, expected)), hash |-> after,
                            bodyRead |-> TRUE, digested |-> TRUE]
                      ELSE [res |-> Ok(bytes), hash |-> after,
                            bodyRead |-> TRUE, digested |-> TRUE]
             ELSE [res |-> Ok(bytes), hash |-> h, bodyRead |-> TRUE, digested |-> FALSE]

\* Line 374 giving up after the first retry whatever the schedule.
Exhausted_AfterOneRetry(count, delays) == count >= 1 \/ count = Len(delays)

\* Line 374: no retry is left.
Exhausted(count, delays) == count = Len(delays)

\* Line 378: the (min, max) pair of the retry that follows attempt `count`.
RetryDelayPair(count, delays) == delays[count + 1]

\* Lines 369-376 returning the error of the only attempt as it is when the
\* schedule has no retry.
send_match_BareError(res, errs, count, delays) ==
    IF res.ok
    THEN [pc |-> "idle", result |-> Some(Ok(res.bytes)), errors |-> errs]
    ELSE IF Exhausted(count, delays)
    THEN [pc |-> "idle",
          result |-> IF delays = <<>> THEN Some(Err(res.err))
                     ELSE Some(Err(DownloadFailed(Append(errs, res.err)))),
          errors |-> Append(errs, res.err)]
    ELSE [pc |-> "delay", result |-> None, errors |-> Append(errs, res.err)]

\* Lines 369-376 failing a send whose error log is not empty although the
\* attempt succeeded.
send_match_KeepsLog(res, errs, count, delays) ==
    IF res.ok /\ errs = <<>>
    THEN [pc |-> "idle", result |-> Some(Ok(res.bytes)), errors |-> errs]
    ELSE IF res.ok
    THEN [pc |-> "idle", result |-> Some(Err(DownloadFailed(errs))), errors |-> errs]
    ELSE IF Exhausted(count, delays)
    THEN [pc |-> "idle", result |-> Some(Err(DownloadFailed(Append(errs, res.err)))),
          errors |-> Append(errs, res.err)]
    ELSE [pc |-> "delay", result |-> None, errors |-> Append(errs, res.err)]

\* RequestBuilder::send, lines 369-376: what the loop does with the Result
\* res of an attempt, given the error log and the retry counter.
send_match(res, errs, count, delays) ==
    IF res.ok
    THEN [pc |-> "idle", result |-> Some(Ok(res.bytes)), errors |-> errs]
    ELSE IF Exhausted(count, delays)
    THEN [pc |-> "idle", result |-> Some(Err(DownloadFailed(Append(errs, res.err)))),
          errors |-> Append(errs, res.err)]
    ELSE [pc |-> "delay", result |-> None, errors |-> Append(errs, res.err)]

-----------------------------------------------------------------------------
(* History records.                                                        *)

Event(kind, sampled, blocked, n) ==
    [kind |-> kind, sampled |-> sampled, blocked |-> blocked, n |-> n]

\* first, last: the instants the first and the latest attempt of this send
\* were issued; prevFirst, prevLast: the same of the send before it;
\* drained: the caller called sleep_until_ready since the last send began;
\* afterDrain: it did so between the send before this one and this one.
NoTiming == [first |-> None, last |-> None, prevFirst |-> None, prevLast |-> None,
             drained |-> FALSE, afterDrain |-> FALSE]

-----------------------------------------------------------------------------
(* The state after DownloaderBuilder::build, lines 190-198, for a builder  *)
(* configured with interval (224-231) and retry_delays (296-307).          *)

Build(intervals, delays) ==
    /\ \E iv \in intervals : min_interval = iv[1] /\ max_interval = iv[2]
    /\ retry_delays \in SeqsUpTo(delays, MaxRetries)
    /\ prev_download_start = None
    /\ now = 0
    /\ pc = "idle"
    /\ hash = None
    /\ cloneable = TRUE
    /\ errors = <<>>
    /\ retry_count = 0
    /\ result = None
    /\ hash_arg = None
    /\ attempts = <<>>
    /\ events = <<>>
    /\ timing = NoTiming

\* Downloader::get, lines 118-120, and RequestBuilder::new, lines 389-395.
\* can_clone: whether the reqwest request built for the url can be cloned.
Get(can_clone) ==
    /\ pc = "idle"
    /\ pc' = "request"
    /\ hash' = None
    /\ cloneable' = can_clone
    /\ result' = None
    /\ errors' = <<>>
    /\ retry_count' = 0
    /\ hash_arg' = None
    /\ attempts' = <<>>
    /\ events' = <<>>
    /\ UNCHANGED <<downloader, prev_download_start, now, timing>>

\* RequestBuilder::hash, lines 343-348.
\* Line 344 storing the expected hash as the caller wrote it.
hash_attach_AsGiven(expected, digest) ==
    Some([expected |-> expected, digest |-> digest])

\* RequestBuilder::hash, lines 344-347: the value stored in self.hash.
hash_attach(expected, digest) ==
    Some([expected |-> to_lowercase(expected), digest |-> digest])

Hash(expected, digest) ==
    /\ pc = "request"
    /\ hash = None
    /\ hash' = hash_attach(expected, digest)
    /\ hash_arg' = Some(expected)
    /\ UNCHANGED <<downloader, prev_download_start, now, pc, cloneable, errors,
                   retry_count, result, attempts, events, timing>>

\* The caller calls Downloader::sleep_until_ready, lines 151-160.
SleepUntilReady(jitter) ==
    /\ pc = "idle"
    /\ \E interval \in random_duration(min_interval, max_interval) :
         LET o == sleep_until_ready(prev_download_start, now, interval, jitter)
         IN  /\ o.wake <= MaxTime
             /\ now' = o.wake
             /\ prev_download_start' = o.prev
    /\ result' = None
    /\ timing' = [timing EXCEPT !.drained = TRUE]
    /\ UNCHANGED <<downloader, pc, hash, cloneable, errors, retry_count,
                   hash_arg, attempts, events>>

\* Lines 361-365 without the call of line 363.
SendBegin_NoWait(jitter) ==
    /\ pc = "request"
    /\ errors' = <<>>
    /\ events' = <<>>
    /\ retry_count' = 0
    /\ pc' = "loop"
    /\ attempts' = <<>>
    /\ timing' = [first |-> None, last |-> None,
                  prevFirst |-> timing.first, prevLast |-> timing.last,
                  drained |-> FALSE, afterDrain |-> timing.drained]
    /\ UNCHANGED <<downloader, prev_download_start, now, hash, cloneable, result,
                   hash_arg>>

\* RequestBuilder::send, lines 361-365: the error log, the interval wait
\* and the retry counter.
SendBegin(jitter) ==
    /\ pc = "request"
    /\ errors' = <<>>
    /\ \E interval \in random_duration(min_interval, max_interval) :
         LET o == sleep_until_ready(prev_download_start, now, interval, jitter)
         IN  /\ o.wake <= MaxTime
             /\ now' = o.wake
             /\ prev_download_start' = o.prev
             /\ events' = << Event("sleep_until_ready", o.sampled, o.blocked,
                                    IF o.sampled THEN interval ELSE 0) >>
    /\ retry_count' = 0
    /\ pc' = "loop"
    /\ attempts' = <<>>
    /\ timing' = [first |-> None, last |-> None,
                  prevFirst |-> timing.first, prevLast |-> timing.last,
                  drained |-> FALSE, afterDrain |-> timing.drained]
    /\ UNCHANGED <<downloader, hash, cloneable, result, hash_arg>>

\* Line 367 placed before the loop: only the first attempt is stamped.
StampStart_FirstOnly ==
    /\ pc = "loop"
    /\ prev_download_start' = IF retry_count = 0 THEN Some(now) ELSE prev_download_start
    /\ pc' = "send_once"
    /\ UNCHANGED <<downloader, now, hash, cloneable, errors, retry_count, result,
                   hash_arg, attempts, events, timing>>

\* RequestBuilder::send, line 367.
StampStart ==
    /\ pc = "loop"
    /\ prev_download_start' = Some(now)
    /\ pc' = "send_once"
    /\ UNCHANGED <<downloader, now, hash, cloneable, errors, retry_count, result,
                   hash_arg, attempts, events, timing>>

\* RequestBuilder::send, lines 369-376: one attempt, answered with resp
\* after dur nanoseconds, then the match and the test for exhaustion.
\* Line 398 panics when the request cannot be cloned.
\* The loop of RequestBuilder::send, lines 365-381, as a function of the
\* responses its attempts receive: the value send returns, or None when
\* the responses run out before it returns.
RECURSIVE send_loop(_, _, _, _, _)
send_loop(resps, h, errs, count, delays) ==
    IF resps = <<>> THEN None
    ELSE LET r == send_once(Head(resps), h)
             m == send_match(r.res, errs, count, delays)
         IN  IF m.pc = "idle" THEN m.result
             ELSE send_loop(Tail(resps), r.hash, m.errors, count + 1, delays)

SendOnce(resp, dur) ==
    /\ pc = "send_once"
    /\ now + dur <= MaxTime
    /\ IF ~cloneable
       THEN /\ pc' = "panicked"
            /\ UNCHANGED <<now, hash, errors, result, attempts, events, timing>>
       ELSE LET r == send_once(resp, hash)
                m == send_match(r.res, errors, retry_count, retry_delays)
            IN  /\ events' = Append(events, Event("attempt", FALSE, FALSE, retry_count))
                /\ timing' = [timing EXCEPT
                                !.first = IF IsSome(@) THEN @ ELSE Some(now),
                                !.last = Some(now)]
                /\ now' = now + dur
                /\ hash' = r.hash
                /\ attempts' = Append(attempts, [resp |-> resp, res |-> r.res,
                                                 bodyRead |-> r.bodyRead,
                                                 digested |-> r.digested])
                /\ errors' = m.errors
                /\ result' = m.result
                /\ pc' = m.pc
    /\ UNCHANGED <<downloader, prev_download_start, cloneable, retry_count, hash_arg>>

\* RequestBuilder::send, lines 378-380: the delay before the next attempt.
\* Lines 378-380 taking the pair off the front of the coordinator's
\* schedule instead of indexing it.
RetryDelay_ConsumesSchedule(jitter) ==
    /\ pc = "delay"
    /\ \E d \in random_duration(Head(retry_delays)[1], Head(retry_delays)[2]) :
         /\ thread_sleep(now, d, jitter) <= MaxTime
         /\ now' = thread_sleep(now, d, jitter)
         /\ events' = Append(events, Event("delay", TRUE, TRUE, d))
    /\ retry_delays' = Tail(retry_delays)
    /\ retry_count' = 0
    /\ pc' = "loop"
    /\ UNCHANGED <<min_interval, max_interval, prev_download_start, hash, cloneable,
                   errors, result, hash_arg, attempts, timing>>

RetryDelay(jitter) ==
    /\ pc = "delay"
    /\ \E d \in random_duration(RetryDelayPair(retry_count, retry_delays)[1],
                                RetryDelayPair(retry_count, retry_delays)[2]) :
         /\ thread_sleep(now, d, jitter) <= MaxTime
         /\ now' = thread_sleep(now, d, jitter)
         /\ events' = Append(events, Event("delay", TRUE, TRUE, d))
    /\ retry_count' = retry_count + 1
    /\ pc' = "loop"
    /\ UNCHANGED <<downloader, prev_download_start, hash, cloneable, errors, result,
                   hash_arg, attempts, timing>>

\* The caller does something else for d nanoseconds between two calls.
Tick(d) ==
    /\ pc = "idle"
    /\ now + d <= MaxTime
    /\ now' = now + d
    /\ UNCHANGED <<downloader, prev_download_start, pc, hash, cloneable, errors,
                   retry_count, result, hash_arg, attempts, events, timing>>

-----------------------------------------------------------------------------
(* DownloaderBuilder.  An f32 number of seconds is [nan, v]: not a number, *)
(* or v / FracPerNano nanoseconds (v may be negative).                     *)

F32(v) == [nan |-> FALSE, v |-> v]
NaN == [nan |-> TRUE, v |-> 0]

\* f32 `<=`: false when either side is NaN.
f32_le(a, b) == ~a.nan /\ ~b.nan /\ a.v <= b.v

\* Duration::from_secs_f32 panics on a negative or non-finite argument.
from_secs_f32_panics(x) == x.nan \/ x.v < 0

\* Duration::from_secs_f32: the nearest whole number of nanoseconds.
from_secs_f32(x) == (2 * x.v + FracPerNano) \div (2 * FracPerNano)

\* Arguments a caller passes to interval and retry_delays.
F32Inputs == { NaN, F32(-2), F32(0), F32(2999), F32(3000), F32(5000) }
F32Pairs == F32Inputs \X F32Inputs

\* Items a caller passes to retry_delays: zero, a proper window, min > max,
\* not a number, negative.
RetryDelayArgs ==
    { <<F32(0), F32(0)>>, <<F32(2999), F32(5000)>>, <<F32(3000), F32(2999)>>,
      <<NaN, F32(0)>>, <<F32(-2), F32(0)>> }

\* DownloaderBuilder::new, lines 236-243.
DownloaderBuilder_new ==
    /\ min_interval = 0
    /\ max_interval = 0
    /\ retry_delays = <<>>
    /\ prev_download_start = None
    /\ now = 0
    /\ pc = "builder_new"
    /\ hash = None
    /\ cloneable = TRUE
    /\ errors = <<>>
    /\ retry_count = 0
    /\ result = None
    /\ hash_arg = None
    /\ attempts = <<>>
    /\ events = <<>>
    /\ timing = NoTiming

builder_rest == <<prev_download_start, now, hash, cloneable, errors, retry_count,
                  result, hash_arg, attempts, events, timing>>

\* DownloaderBuilder::interval without the assert of line 225.
Interval_NoAssert(min, max) ==
    /\ pc \in {"builder_new", "builder"}
    /\ IF from_secs_f32_panics(min) \/ from_secs_f32_panics(max)
       THEN /\ pc' = "panicked"
            /\ UNCHANGED downloader
       ELSE /\ min_interval' = from_secs_f32(min)
            /\ max_interval' = from_secs_f32(max)
            /\ pc' = "builder"
            /\ UNCHANGED retry_delays
    /\ UNCHANGED builder_rest

\* DownloaderBuilder::interval, lines 224-231.
Interval(min, max) ==
    /\ pc \in {"builder_new", "builder"}
    /\ IF ~f32_le(min, max) \/ from_secs_f32_panics(min) \/ from_secs_f32_panics(max)
       THEN /\ pc' = "panicked"
            /\ UNCHANGED downloader
       ELSE /\ min_interval' = from_secs_f32(min)
            /\ max_interval' = from_secs_f32(max)
            /\ pc' = "builder"
            /\ UNCHANGED retry_delays
    /\ UNCHANGED builder_rest

\* DownloaderBuilder::reqwest, lines 260-268: only client_builder changes.
ConfigureReqwest ==
    /\ pc \in {"builder_new", "builder"}
    /\ pc' = "builder"
    /\ UNCHANGED <<downloader, builder_rest>>

\* DownloaderBuilder::retry_delays, lines 296-307: the loop panics at the
\* first item it cannot take.
RetryDelays(items) ==
    /\ pc \in {"builder_new", "builder"}
    /\ IF \E i \in 1..Len(items) :
            \/ ~f32_le(items[i][1], items[i][2])
            \/ from_secs_f32_panics(items[i][1])
            \/ from_secs_f32_panics(items[i][2])
       THEN /\ pc' = "panicked"
            /\ UNCHANGED downloader
       ELSE /\ retry_delays' = [i \in 1..Len(items) |->
                                    << from_secs_f32(items[i][1]),
                                       from_secs_f32(items[i][2]) >>]
            /\ pc' = "builder"
            /\ UNCHANGED <<min_interval, max_interval>>
    /\ UNCHANGED builder_rest

\* DownloaderBuilder::build, lines 190-198.  client_ok: whether
\* client_builder.build() succeeds; otherwise build returns the error.
BuilderBuild(client_ok) ==
    /\ pc \in {"builder_new", "builder"}
    /\ pc' = IF client_ok THEN "idle" ELSE "build_failed"
    /\ prev_download_start' = None
    /\ UNCHANGED <<downloader, now, hash, cloneable, errors, retry_count,
                   result, hash_arg, attempts, events, timing>>

-----------------------------------------------------------------------------
(* Spec: the answers and the requests vary.                                *)

Init == Build(IntervalPairs, DelayPairs)

Next ==
    \/ \E c \in BOOLEAN : Get(c)
    \/ \E h \in HashInputs : Hash(h[1], h[2])
    \/ \E j \in Jitters : SleepUntilReady(j)
    \/ \E j \in Jitters : SendBegin(j)
    \/ StampStart
    \/ \E resp \in Responses, dur \in AttemptDurations : SendOnce(resp, dur)
    \/ \E j \in Jitters : RetryDelay(j)
    \/ \E d \in IdleDurations : Tick(d)

Spec == Init /\ [][Next]_vars

(* SpecTiming: the durations vary.                                         *)

InitTiming == Build(IntervalPairsTiming, DelayPairsTiming)

NextTiming ==
    \/ \E c \in BOOLEAN : Get(c)
    \/ \E h \in HashInputsTiming : Hash(h[1], h[2])
    \/ \E j \in JittersTiming : SleepUntilReady(j)
    \/ \E j \in JittersTiming : SendBegin(j)
    \/ StampStart
    \/ \E resp \in ResponsesTiming, dur \in AttemptDurationsTiming : SendOnce(resp, dur)
    \/ \E j \in JittersTiming : RetryDelay(j)
    \/ \E d \in IdleDurationsTiming : Tick(d)

SpecTiming == InitTiming /\ [][NextTiming]_vars

(* SpecBuilder: the calls on a DownloaderBuilder, up to build.             *)

InitBuilder == DownloaderBuilder_new

NextBuilder ==
    \/ \E p \in F32Pairs : Interval(p[1], p[2])
    \/ ConfigureReqwest
    \/ \E items \in SeqsUpTo(RetryDelayArgs, MaxRetries) : RetryDelays(items)
    \/ \E ok \in BOOLEAN : BuilderBuild(ok)

SpecBuilder == InitBuilder /\ [][NextBuilder]_vars

-----------------------------------------------------------------------------
(* Properties.                                                             *)

R == Len(retry_delays)

\* send has just returned: result holds what it returned.
Returned == pc = "idle" /\ IsSome(result)
ReturnedOk == Returned /\ Unwrap(result).ok
ReturnedErr == Returned /\ ~Unwrap(result).ok

AttemptEvents == { i \in 1..Len(events) : events[i].kind = "attempt" }
DelayEvents == { i \in 1..Len(events) : events[i].kind = "delay" }

\* The lowercase hex digest of bytes, computed with a fresh digest.
HexDigestOf(bytes) == hex_encode(digest_finalize(digest_update(<<>>, bytes)))

\* C1: a send that ends in failure issued exactly R+1 attempts and returns
\* DownloadFailed with exactly R+1 sub-errors, the i-th being the error of
\* the i-th attempt; with empty retry_delays that is one attempt and one
\* sub-error.
C1_FailureHasOneErrorPerAttempt ==
    ReturnedErr =>
        /\ Cardinality(AttemptEvents) = R + 1
        /\ Len(attempts) = R + 1
        /\ Unwrap(result).err.kind = "DownloadFailed"
        /\ Len(Unwrap(result).err.errors) = R + 1
        /\ \A i \in 1..(R + 1) :
             /\ ~attempts[i].res.ok
             /\ Unwrap(result).err.errors[i] = attempts[i].res.err

\* A failed send with two retries whose three attempts failed differently.
C1_Witness ==
    /\ ReturnedErr
    /\ R = 2
    /\ attempts[1].res.err.kind = "StatusNotOk"
    /\ attempts[2].res.err.kind = "Reqwest"
    /\ attempts[3].res.err.kind = "HashMismatch"

\* C2: a send returns bytes iff one of its at most R+1 attempts succeeds;
\* the bytes are those of the first successful attempt, which is the last
\* event of the send (no attempt and no delay follows it), and the errors
\* of the earlier attempts are not part of what is returned.
C2_BytesIffFirstSuccess ==
    Returned =>
        /\ Len(attempts) <= R + 1
        /\ Unwrap(result).ok <=> (\E i \in 1..Len(attempts) : attempts[i].res.ok)
        /\ ~Unwrap(result).ok => Len(attempts) = R + 1
        /\ Unwrap(result).ok =>
             /\ \A i \in 1..(Len(attempts) - 1) : ~attempts[i].res.ok
             /\ Unwrap(result) = Ok(attempts[Len(attempts)].res.bytes)
             /\ events[Len(events)].kind = "attempt"
             /\ Cardinality(AttemptEvents) = Len(attempts)
             /\ Cardinality(DelayEvents) = Len(attempts) - 1

\* A send that succeeds on the last allowed attempt, after R >= 1 failures.
C2_Witness ==
    /\ ReturnedOk
    /\ R >= 1
    /\ Len(attempts) = R + 1
    /\ errors # <<>>

\* C3: the bytes of a successful send are the body of the successful
\* attempt, a 200 response, and with an expected hash attached their
\* lowercase hex digest equals the lowercased expected string; a 200
\* response whose body digest differs is a HashMismatch failure of its
\* attempt, recorded in the error log.
C3_SuccessIsVerifiedBody ==
    /\ ReturnedOk =>
         LET last == attempts[Len(attempts)].resp
         IN  /\ Unwrap(result).bytes = last.body
             /\ ~last.sendErr /\ last.status = StatusOK /\ ~last.bodyErr
             /\ IsSome(hash_arg) =>
                  HexDigestOf(Unwrap(result).bytes) = to_lowercase(Unwrap(hash_arg))
    /\ \A i \in 1..Len(attempts) :
         LET a == attempts[i]
         IN  ( /\ IsSome(hash_arg)
               /\ ~a.resp.sendErr /\ a.resp.status = StatusOK /\ ~a.resp.bodyErr
               /\ HexDigestOf(a.resp.body) # to_lowercase(Unwrap(hash_arg)) )
             => /\ a.res = Err(HashMismatch(HexDigestOf(a.resp.body),
                                            to_lowercase(Unwrap(hash_arg))))
                /\ errors[i] = a.res.err

\* A send with an uppercase expected hash and a digest that had been fed
\* before, which fails one attempt with HashMismatch and then succeeds.
C3_Witness ==
    /\ ReturnedOk
    /\ IsSome(hash_arg)
    /\ Unwrap(hash_arg) # to_lowercase(Unwrap(hash_arg))
    /\ Len(attempts) >= 2
    /\ attempts[1].res.err.kind = "HashMismatch"

\* The latest wake-up of thread::sleep the runs try.
Epsilon == CHOOSE j \in JittersTiming : \A k \in JittersTiming : k <= j

\* This send follows another send, with no sleep_until_ready called by the
\* caller in between, and has issued its first attempt.
SecondOfPair ==
    /\ IsSome(timing.first)
    /\ IsSome(timing.prevFirst)
    /\ ~timing.afterDrain

\* C4: for two consecutive sends without a sleep_until_ready between them,
\* the time from the first attempt start of the first send to the first
\* attempt start of the second is at least min_interval.
C4_GapAtLeastMinInterval ==
    SecondOfPair => Unwrap(timing.first) - Unwrap(timing.prevFirst) >= min_interval

\* C5: for two consecutive sends without a sleep_until_ready between them,
\* the time from the first attempt start of the first send to the first
\* attempt start of the second is at most max_interval + epsilon.
C5_GapAtMostMaxInterval ==
    SecondOfPair =>
        Unwrap(timing.first) - Unwrap(timing.prevFirst) <= max_interval + Epsilon

\* C5 as amended: when the interval wait of the second send blocks, the
\* time from the LAST attempt start of the first send to the first attempt
\* start of the second is at most max_interval + epsilon.
C5_WaitEndsWithinMaxOfLastStart ==
    (SecondOfPair /\ events # <<>> /\ events[1].blocked) =>
        Unwrap(timing.first) - Unwrap(timing.prevLast) <= max_interval + Epsilon

\* A second send that had to wait, after a first send that retried: its
\* first attempt starts more than max_interval + epsilon after the first
\* attempt of the first send.
C5_Witness ==
    /\ SecondOfPair
    /\ events # <<>> /\ events[1].blocked
    /\ timing.prevLast # timing.prevFirst
    /\ Unwrap(timing.first) - Unwrap(timing.prevFirst) > max_interval + Epsilon

\* C6: after sleep_until_ready returns prev_download_start is absent, and
\* the sleep_until_ready call inside the next send neither samples an
\* interval nor blocks.
C6_ReadyThenNoWait ==
    /\ timing.drained => prev_download_start = None
    /\ (timing.afterDrain /\ events # <<>>) =>
         /\ events[1].kind = "sleep_until_ready"
         /\ ~events[1].sampled
         /\ ~events[1].blocked

\* A send after a send and a sleep_until_ready, with a positive interval,
\* that has issued its first attempt.
C6_Witness ==
    /\ timing.afterDrain
    /\ IsSome(timing.prevLast)
    /\ IsSome(timing.first)
    /\ min_interval > 0

\* C7: when an attempt is about to be issued prev_download_start holds the
\* current time, and during the retry delay and after send has returned,
\* with bytes or with a failure, it holds the start time of the last
\* attempt.
C7_PrevIsLastAttemptStart ==
    /\ pc = "send_once" => prev_download_start = Some(now)
    /\ (pc = "delay" \/ Returned) =>
         /\ IsSome(timing.last)
         /\ prev_download_start = timing.last

\* A failed send with a retry: its last attempt started after its first.
C7_Witness ==
    /\ ReturnedErr
    /\ Len(attempts) >= 2
    /\ Unwrap(timing.last) > Unwrap(timing.first)
    /\ prev_download_start = timing.last

\* C8: the events of a send are one sleep_until_ready call, then attempt 0,
\* then delay k and attempt k+1 in turn, with at most R delays; the
\* sleep_until_ready call precedes everything and a send returns right
\* after an attempt.
C8_EventOrder ==
    /\ pc \in {"loop", "send_once", "delay", "panicked"} => events # <<>>
    /\ Returned => events # <<>> /\ events[Len(events)].kind = "attempt"
    /\ events # <<>> =>
         /\ events[1].kind = "sleep_until_ready"
         /\ \A i \in 2..Len(events) :
              IF i % 2 = 0
              THEN events[i].kind = "attempt" /\ events[i].n = (i \div 2) - 1
              ELSE events[i].kind = "delay"
         /\ Cardinality(DelayEvents) <= R
    /\ pc = "delay" => events[Len(events)].kind = "attempt"
    /\ (pc \in {"loop", "send_once"} /\ retry_count > 0) =>
         events[Len(events)].kind = "delay"

\* A send that waited for the interval, then made three attempts with two
\* delays between them.
C8_Witness ==
    /\ Returned
    /\ Len(events) = 6
    /\ events[1].blocked

\* C9: the only error send returns is DownloadFailed, and its sub-errors
\* are single-attempt errors, never a DownloadFailed.
C9_OnlyDownloadFailed ==
    ReturnedErr =>
        /\ Unwrap(result).err.kind = "DownloadFailed"
        /\ Unwrap(result).err.errors # <<>>
        /\ \A i \in 1..Len(Unwrap(result).err.errors) :
             /\ Unwrap(result).err.errors[i].kind \in {"Reqwest", "StatusNotOk", "HashMismatch"}
             /\ Unwrap(result).err.errors[i].errors = <<>>

\* A failed send on a coordinator without retries.
C9_Witness ==
    /\ ReturnedErr
    /\ R = 0
    /\ Len(Unwrap(result).err.errors) = 1

\* C10: an attempt answered with a status other than 200 fails with
\* StatusNotOk carrying that status; its body is not read, not fed to the
\* digest, and not returned.
C10_Not200IsStatusNotOk ==
    \A i \in 1..Len(attempts) :
        LET a == attempts[i]
        IN  (~a.resp.sendErr /\ a.resp.status # StatusOK) =>
                /\ a.res = Err(StatusNotOk(a.resp.status))
                /\ ~a.bodyRead
                /\ ~a.digested
                /\ errors[i] = a.res.err
                /\ (Returned /\ i = Len(attempts)) => ~Unwrap(result).ok

\* A send with an expected hash whose attempts were answered 204 and 500.
C10_Witness ==
    /\ IsSome(hash)
    /\ Len(attempts) >= 2
    /\ attempts[1].resp.status = 204
    /\ attempts[2].resp.status = 500

\* Every (min, max) pair the coordinator holds is ordered.
ConfigOrdered ==
    /\ min_interval <= max_interval
    /\ \A i \in 1..Len(retry_delays) : retry_delays[i][1] <= retry_delays[i][2]

\* C11: a fresh builder has zero intervals and an empty retry schedule;
\* every builder and every coordinator built from it has
\* min_interval <= max_interval and min <= max in every retry_delays item;
\* interval(min, max) with min > max, and retry_delays with an item whose
\* min > max, panic and leave no builder.
C11_BuilderKeepsMinLeMax ==
    /\ [](pc = "builder_new" =>
            min_interval = 0 /\ max_interval = 0 /\ retry_delays = <<>>)
    /\ []ConfigOrdered
    /\ [][\A p \in F32Pairs :
            (Interval(p[1], p[2]) /\ ~f32_le(p[1], p[2])) => pc' = "panicked"]_vars
    /\ [][\A items \in SeqsUpTo(RetryDelayArgs, MaxRetries) :
            (RetryDelays(items)
               /\ \E i \in 1..Len(items) : ~f32_le(items[i][1], items[i][2]))
            => pc' = "panicked"]_vars

\* A coordinator built with a proper interval window and two retry delays
\* whose bounds are not whole microseconds.
C11_Witness ==
    /\ pc = "idle"
    /\ min_interval % NanosPerMicro # 0
    /\ max_interval > min_interval
    /\ Len(retry_delays) = 2
    /\ retry_delays[1][1] < retry_delays[1][2]

\* char::to_uppercase on the characters the inputs use.
UpperChar(c) ==
    CASE c = "a" -> "A" [] c = "b" -> "B" [] c = "c" -> "C"
      [] c = "d" -> "D" [] c = "e" -> "E" [] c = "f" -> "F"
      [] OTHER -> c

to_uppercase(s) == [i \in 1..Len(s) |-> UpperChar(s[i])]

\* The responses the attempts of this send received, in order.
ResponsesSoFar == [i \in 1..Len(attempts) |-> attempts[i].resp]

\* The digest objects a caller may pass to hash().
DigestInputs == { hi[2] : hi \in HashInputs }

\* C12: for the responses this send received, a request configured with
\* the uppercase spelling of its expected hash and one configured with the
\* lowercase spelling return the same value (the same bytes, or the same
\* sub-error list), which is the value this send returned; every
\* HashMismatch carries the lowercase spelling as `expected`.  Stated of
\* the states in which an attempt has just ended.
C12_HashCaseInsensitive ==
    (IsSome(hash_arg) /\ attempts # <<>> /\ (pc = "delay" \/ Returned)) =>
        LET e == Unwrap(hash_arg)
        IN  /\ \A d \in DigestInputs :
                 LET up == send_loop(ResponsesSoFar, hash_attach(to_uppercase(e), d),
                                     <<>>, 0, retry_delays)
                     lo == send_loop(ResponsesSoFar, hash_attach(to_lowercase(e), d),
                                     <<>>, 0, retry_delays)
                 IN  IF Returned THEN up = result /\ lo = result
                     ELSE up = None /\ lo = None
            /\ \A i \in 1..Len(attempts) :
                 attempts[i].res.err.kind = "HashMismatch" =>
                     attempts[i].res.err.expected = to_lowercase(e)

\* A send given an uppercase expected hash has returned the body whose
\* lowercase digest it is, after an attempt that failed the hash check.
C12_Witness ==
    /\ ReturnedOk
    /\ IsSome(hash_arg)
    /\ to_uppercase(Unwrap(hash_arg)) # to_lowercase(Unwrap(hash_arg))
    /\ Unwrap(hash_arg) = to_uppercase(Unwrap(hash_arg))
    /\ \E i \in 1..Len(attempts) : attempts[i].res.err.kind = "HashMismatch"

\* C13: every send ends with exactly one value, bytes or DownloadFailed,
\* after at most R + 1 attempts and at most R delays, and never reads
\* retry_delays out of range.  As a property of every run: no send stops
\* without a returned value, the attempt and delay counts stay within
\* R + 1 and R, and a delay is only taken with retry_count < R.
C13_SendEndsWithOneOutcome ==
    /\ Len(attempts) <= R + 1
    /\ Cardinality(DelayEvents) <= R
    /\ pc = "delay" => retry_count < R
    /\ pc # "panicked"
    /\ (pc = "idle" /\ events # <<>> /\ ~timing.drained) => IsSome(result)

\* C14: on a coordinator with min_interval = max_interval = 0, no call of
\* sleep_until_ready, by the caller or inside send, blocks: the call
\* returns at the instant it was made and send records no wait.
C14_ZeroIntervalNeverBlocks ==
    /\ []((min_interval = 0 /\ max_interval = 0 /\ events # <<>>) =>
            ~events[1].blocked)
    /\ [][(min_interval = 0 /\ max_interval = 0
             /\ \E j \in JittersTiming : SleepUntilReady(j) \/ SendBegin(j))
          => now' = now]_vars

\* A zero-interval coordinator whose second send found the start of an
\* earlier attempt recorded, and went on to its own attempt.
C14_Witness ==
    /\ min_interval = 0
    /\ max_interval = 0
    /\ IsSome(timing.prevLast)
    /\ ~timing.afterDrain
    /\ events # <<>>
    /\ events[1].sampled
    /\ IsSome(timing.first)

\* The delay events of this send that precede event i.
DelaysBefore(i) == { j \in DelayEvents : j < i }

\* C16: the delay slept after failed attempt k (k < R) is sampled from
\* retry_delays[k] and lies within [retry_delays[k].min, retry_delays[k].max];
\* the pairs are used in order, each at most once per send, and no delay is
\* sampled after attempt R fails.
C16_DelayWithinItsPair ==
    /\ Cardinality(DelayEvents) <= R
    /\ \A i \in DelayEvents :
         LET k == Cardinality(DelaysBefore(i))
         IN  /\ k < R
             /\ events[i - 1].kind = "attempt"
             /\ events[i - 1].n = k
             /\ retry_delays[k + 1][1] <= events[i].n
             /\ events[i].n <= retry_delays[k + 1][2]
    /\ \A i \in AttemptEvents : events[i].n = R => i = Len(events)

\* C17: the digest is reset at the start of each attempt, so the hash
\* verdict of an attempt is a function of that attempt's body and the
\* expected hash alone: the attempt succeeds exactly when the digest of
\* its own body, computed from a fresh digest, equals the expected hash,
\* and otherwise reports that digest; neither the bodies of earlier
\* attempts nor data fed to the digest before hash() change it.
C17_VerdictFromOwnBodyOnly ==
    \A i \in 1..Len(attempts) :
        attempts[i].digested =>
            LET a   == attempts[i]
                own == HexDigestOf(a.resp.body)
            IN  /\ IsSome(hash)
                /\ a.res.ok <=> own = Unwrap(hash).expected
                /\ ~a.res.ok => a.res.err = HashMismatch(own, Unwrap(hash).expected)

\* Two attempts of one send were both hashed, with different bodies and
\* different verdicts, by a digest that had been fed before hash().
C17_Witness ==
    /\ Len(attempts) >= 2
    /\ attempts[1].digested
    /\ attempts[2].digested
    /\ attempts[1].resp.body # attempts[2].resp.body
    /\ attempts[1].resp.body # <<>>
    /\ ~attempts[1].res.ok
    /\ attempts[2].res.ok
    /\ \E hi \in HashInputs : hi[1] = Unwrap(hash_arg) /\ hi[2] # <<>>

\* C18: for the durations min <= max the builder stores, random_duration
\* returns d with min <= d <= max, and exactly min when min = max.  Of the
\* values sampled in a run: the interval sampled by the wait of send lies
\* within [min_interval, max_interval], and the delay sampled after failed
\* attempt k within retry_delays[k].
C18_SampleWithinBounds ==
    /\ (events # <<>> /\ events[1].sampled) =>
         /\ min_interval <= events[1].n
         /\ events[1].n <= max_interval
         /\ min_interval = max_interval => events[1].n = min_interval
    /\ \A i \in DelayEvents :
         LET pair == retry_delays[Cardinality(DelaysBefore(i)) + 1]
         IN  /\ pair[1] <= events[i].n
             /\ events[i].n <= pair[2]
             /\ pair[1] = pair[2] => events[i].n = pair[1]

\* An attempt has been started since build and since the caller's last
\* call of sleep_until_ready returned.
AttemptSinceReady == IsSome(timing.last) /\ ~timing.drained

\* C19: between operations prev_download_start is absent exactly when no
\* attempt has been started since build or since the last
\* sleep_until_ready returned: absent right after build, present after
\* every send that returned, whatever it returned.
C19_PrevAbsentIffNoAttemptSince ==
    /\ pc \in {"idle", "request"} =>
         (prev_download_start = None <=> ~AttemptSinceReady)
    /\ (pc = "idle" /\ events = <<>> /\ ~timing.drained) =>
         prev_download_start = None
    /\ Returned => IsSome(prev_download_start)

\* After a failed send the caller called sleep_until_ready, which did not
\* have to sleep, and the start is absent again.
C19_Witness ==
    /\ pc = "idle"
    /\ timing.drained
    /\ IsSome(timing.last)
    /\ attempts # <<>>
    /\ ~attempts[Len(attempts)].res.ok
    /\ prev_download_start = None
    /\ now >= Unwrap(timing.last) + max_interval
    /\ max_interval > 0

\* C20: get, send and sleep_until_ready never change min_interval,
\* max_interval or retry_delays; a request starts without a hash; every
\* send starts with retry count 0 and an empty error log, and a send that
\* fails has made R + 1 attempts also when the send before it had used
\* its retries.
C20_ConfigurationIsFrame ==
    /\ [][downloader' = downloader]_vars
    /\ [][(pc = "idle" /\ pc' = "request") =>
            (hash' = None /\ prev_download_start' = prev_download_start)]_vars
    /\ []((pc = "loop" /\ Len(events) = 1) =>
            (retry_count = 0 /\ errors = <<>> /\ attempts = <<>>))
    /\ []((ReturnedErr /\ IsSome(timing.prevFirst)) =>
            (Len(attempts) = R + 1 /\ retry_count = R))

\* A send has failed after R + 1 >= 2 attempts, following a send that had
\* itself retried.
C20_Witness ==
    /\ ReturnedErr
    /\ R >= 1
    /\ IsSome(timing.prevFirst)
    /\ timing.prevFirst # timing.prevLast
    /\ Len(attempts) = R + 1

====
